---- MODULE Spec2Model ----
(***************************************************************************)
(* Model of the Collatz exploration program: the memoised sequence        *)
(* generator (main.py: collatz), the parity string and affine            *)
(* transformation walkers (main.py: full_binary_sequence,                  *)
(* collatz_transformation) and the rational linear Diophantine solver      *)
(* (modular_integer_solver.py).                                            *)
(***************************************************************************)
EXTENDS Integers, Sequences, FiniteSets, TLC

VARIABLES
    cache,          \* Dict[int, List]: the compaction cache shared by collatz calls
    x0,             \* argument x of the last collatz call (0 with no error: no call yet)
    restrict_cache, \* argument restrict_cache of the last collatz call
    sequence,       \* list returned by the last collatz call (<<>> when it raised)
    error,          \* exception raised by the last collatz call, or "none"
    phase,          \* position of the caller comparing two restricted calls
    first,          \* what that caller saw at its first restricted call
    fn,             \* walker function being executed
    start,          \* its argument
    current,        \* its loop variable (x / current)
    binary_seq,     \* full_binary_sequence: list of operation characters
    transformation, \* collatz_transformation: the linear expression a*x + b
    wpc,            \* walker position: "idle", "loop", "returned"
    ret,            \* walker return value
    sfn,            \* solver function last called
    args,           \* its arguments
    outcome         \* its result or the exception it raised

cvars == <<cache, x0, restrict_cache, sequence, error>>
rvars == <<phase, first>>
wvars == <<fn, start, current, binary_seq, transformation, wpc, ret>>
svars == <<sfn, args, outcome>>
vars == <<cvars, rvars, wvars, svars>>

-----------------------------------------------------------------------------
(* Bounds *)

\* largest starting integer passed to collatz
MaxStart == 7
\* number of invalid starting integers (0, -1, ...) passed to collatz
InvalidStarts == 2
\* iterations after which a loop of the model is cut off (never reached from a valid start)
MaxIter == 40
\* largest starting integer passed to the walkers
MaxWalk == 10
\* solver inputs: |a_num|, |b_num| <= MaxNum, 1 <= a_den, b_den <= MaxDen
MaxNum == 3
MaxDen == 4

-----------------------------------------------------------------------------
(* Python values *)

\* str(int): decimal characters
DigitChars == <<"0", "1", "2", "3", "4", "5", "6", "7", "8", "9">>

RECURSIVE StrNat(_)
StrNat(n) == IF n < 10 THEN <<DigitChars[n + 1]>>
             ELSE StrNat(n \div 10) \o <<DigitChars[(n % 10) + 1]>>

Str(n) == IF n < 0 THEN <<"-">> \o StrNat(-n) ELSE StrNat(n)

\* a plain integer element of a sequence
Num(v) == [isint |-> TRUE, v |-> v]
\* the string element f"C({x})"
Ref(v) == [isint |-> FALSE, v |-> v]

Abs(n) == IF n < 0 THEN -n ELSE n

-----------------------------------------------------------------------------
(* main.py: collatz_op, collatz *)

collatz_op_swapped(x) == IF x % 2 = 0 THEN <<x \div 2, 1>> ELSE <<3 * x + 1, 0>>

collatz_op(x) == IF x % 2 = 0 THEN <<x \div 2, 0>> ELSE <<3 * x + 1, 1>>

InvalidInput_strict(x) == x < 0

InvalidInput(x) == x <= 0

UseCache_any(x, c, restrict, starting_number) == x \in DOMAIN c

UseCache(x, c, restrict, starting_number) ==
    x \in DOMAIN c /\ (~restrict \/ x < starting_number)

\* the while loop: returns the final x and the sequence built
RECURSIVE CollatzLoop(_, _, _, _, _, _)
CollatzLoop(x, c, restrict, starting_number, seq, fuel) ==
    IF x = 1 \/ fuel = 0
    THEN [x |-> x, sequence |-> seq]
    ELSE IF UseCache(x, c, restrict, starting_number)
         THEN [x |-> x, sequence |-> Append(seq, Ref(x))]
         ELSE CollatzLoop(collatz_op(x)[1], c, restrict, starting_number,
                          Append(seq, Num(x)), fuel - 1)

Finish_nofinal(x, seq) == seq

Finish(x, seq) == IF x = 1 THEN Append(seq, Num(1)) ELSE seq

\* indices of seq holding the integer k
IntIdx(seq, k) == {i \in 1..Len(seq) : seq[i].isint /\ seq[i].v = k}

MaxOf(S) == CHOOSE i \in S : \A j \in S : j <= i

CacheWrite_whole(c, seq) ==
    LET written == {seq[i].v : i \in {j \in 1..Len(seq) : seq[j].isint}}
    IN  [k \in DOMAIN c \cup written |-> IF k \in written THEN seq ELSE c[k]]

CacheWrite_next(c, seq) ==
    LET written == {seq[i].v : i \in {j \in 1..Len(seq) : seq[j].isint}}
    IN  [k \in DOMAIN c \cup written |->
            IF k \in written
            THEN SubSeq(seq, MaxOf(IntIdx(seq, k)) + 1, Len(seq))
            ELSE c[k]]

\* for idx, num in enumerate(sequence): if isinstance(num, int): cache[num] = sequence[idx:]
CacheWrite(c, seq) ==
    LET written == {seq[i].v : i \in {j \in 1..Len(seq) : seq[j].isint}}
    IN  [k \in DOMAIN c \cup written |->
            IF k \in written
            THEN SubSeq(seq, MaxOf(IntIdx(seq, k)), Len(seq))
            ELSE c[k]]

collatz(x, c, restrict) ==
    IF InvalidInput(x)
    THEN [error |-> "ValueError", sequence |-> <<>>, cache |-> c]
    ELSE LET loop == CollatzLoop(x, c, restrict, x, <<>>, MaxIter)
             seq  == Finish(loop.x, loop.sequence)
         IN  [error |-> "none",
              sequence |-> seq,
              cache |-> IF ~restrict THEN CacheWrite(c, seq) ELSE c]

EmptyCache == [k \in {} |-> <<>>]

Starts == (1 - InvalidStarts)..MaxStart

CacheInit ==
    /\ cache = EmptyCache
    /\ x0 = 0
    /\ restrict_cache = FALSE
    /\ sequence = <<>>
    /\ error = "none"

ReproInit ==
    /\ phase = "warmup"
    /\ first = [x |-> 1, sequence |-> <<>>, keys |-> {}]

DoCall(x, r) ==
    LET res == collatz(x, cache, r)
    IN  /\ cache' = res.cache
        /\ sequence' = res.sequence
        /\ error' = res.error
        /\ x0' = x
        /\ restrict_cache' = r

\* collatz(x, cache, restrict_cache=False)
CollatzFull(x) ==
    /\ DoCall(x, FALSE)
    /\ UNCHANGED <<rvars, wvars, svars>>

\* collatz(x, cache, restrict_cache=True)
CollatzRestricted(x) ==
    /\ DoCall(x, TRUE)
    /\ UNCHANGED <<rvars, wvars, svars>>

-----------------------------------------------------------------------------
(* Exact rationals, as sympy keeps the coefficients of the linear expression *)

RECURSIVE Euclid(_, _)
Euclid(a, b) == IF b = 0 THEN a ELSE Euclid(b, a % b)

\* math.gcd: the non-negative greatest common divisor
gcd(a, b) == Euclid(Abs(a), Abs(b))

\* a rational in lowest terms with positive denominator
Rat(n, d) == LET g == gcd(n, d) IN [num |-> n \div g, den |-> d \div g]

Identity == [a |-> Rat(1, 1), b |-> Rat(0, 1)]

\* simplify(transformation / 2)
Halve(t) == [a |-> Rat(t.a.num, 2 * t.a.den), b |-> Rat(t.b.num, 2 * t.b.den)]

Triple_nocarry(t) == [a |-> Rat(3 * t.a.num, t.a.den),
                      b |-> Rat(t.b.num + t.b.den, t.b.den)]

\* simplify(3 * transformation + 1)
Triple(t) == [a |-> Rat(3 * t.a.num, t.a.den),
              b |-> Rat(3 * t.b.num + t.b.den, t.b.den)]

-----------------------------------------------------------------------------
(* main.py: full_binary_sequence, collatz_transformation, one loop iteration per step *)

RECURSIVE Join(_)
\* "".join(list of strings)
Join(list) == IF list = <<>> THEN <<>> ELSE Head(list) \o Join(Tail(list))

WalkStarts == 1..MaxWalk

WalkInit ==
    /\ fn = "none"
    /\ start = 1
    /\ current = 1
    /\ binary_seq = <<>>
    /\ transformation = Identity
    /\ wpc = "idle"
    /\ ret = <<>>

\* full_binary_sequence(start): binary_seq = []; x = start
CallFullBinarySequence(s) ==
    /\ wpc \in {"idle", "returned"}
    /\ fn' = "full_binary_sequence"
    /\ start' = s
    /\ current' = s
    /\ binary_seq' = <<>>
    /\ transformation' = Identity
    /\ wpc' = "loop"
    /\ ret' = <<>>
    /\ UNCHANGED <<cvars, rvars, svars>>

\* one iteration of while x != 1
FbsStep ==
    /\ wpc = "loop"
    /\ fn = "full_binary_sequence"
    /\ current # 1
    /\ binary_seq' = Append(binary_seq, Str(collatz_op(current)[2]))
    /\ current' = collatz_op(current)[1]
    /\ UNCHANGED <<fn, start, transformation, wpc, ret>>
    /\ UNCHANGED <<cvars, rvars, svars>>

\* return "".join(binary_seq)
FbsReturn ==
    /\ wpc = "loop"
    /\ fn = "full_binary_sequence"
    /\ current = 1
    /\ ret' = Join(binary_seq)
    /\ wpc' = "returned"
    /\ UNCHANGED <<fn, start, current, binary_seq, transformation>>
    /\ UNCHANGED <<cvars, rvars, svars>>

\* collatz_transformation(start): transformation = x_var; current = start
CallCollatzTransformation(s) ==
    /\ wpc \in {"idle", "returned"}
    /\ fn' = "collatz_transformation"
    /\ start' = s
    /\ current' = s
    /\ binary_seq' = <<>>
    /\ transformation' = Identity
    /\ wpc' = "loop"
    /\ ret' = <<>>
    /\ UNCHANGED <<cvars, rvars, svars>>

\* even operation
CtEven ==
    /\ wpc = "loop"
    /\ fn = "collatz_transformation"
    /\ current # 1
    /\ current % 2 = 0
    /\ transformation' = Halve(transformation)
    /\ current' = current \div 2
    /\ UNCHANGED <<fn, start, binary_seq, wpc, ret>>
    /\ UNCHANGED <<cvars, rvars, svars>>

\* odd operation
CtOdd ==
    /\ wpc = "loop"
    /\ fn = "collatz_transformation"
    /\ current # 1
    /\ current % 2 # 0
    /\ transformation' = Triple(transformation)
    /\ current' = 3 * current + 1
    /\ UNCHANGED <<fn, start, binary_seq, wpc, ret>>
    /\ UNCHANGED <<cvars, rvars, svars>>

\* return the coefficients of x and of 1
CtReturn ==
    /\ wpc = "loop"
    /\ fn = "collatz_transformation"
    /\ current = 1
    /\ ret' = <<transformation.a, transformation.b>>
    /\ wpc' = "returned"
    /\ UNCHANGED <<fn, start, current, binary_seq, transformation>>
    /\ UNCHANGED <<cvars, rvars, svars>>

-----------------------------------------------------------------------------
(* modular_integer_solver.py *)

\* Python's a // b (floor division), b # 0
FloorDiv(a, b) == IF b < 0 THEN (-a) \div (-b) ELSE a \div b

lcm(a, b) == Abs(a * b) \div gcd(a, b)

RECURSIVE extended_gcd(_, _)
extended_gcd(a, b) ==
    IF b = 0 THEN <<a, 1, 0>>
    ELSE LET rec == extended_gcd(b, a % b)
         IN  <<rec[1], rec[3], rec[2] - (a \div b) * rec[3]>>

\* -1 when no inverse exists; x % m divides by zero when m = 0
modular_inverse(a, m) ==
    LET e == extended_gcd(a, m)
    IN  IF e[1] # 1 THEN [error |-> "none", value |-> -1]
        ELSE IF m = 0 THEN [error |-> "ZeroDivisionError", value |-> 0]
        ELSE [error |-> "none", value |-> e[2] % m]

\* range(0, 6)
NumSamples == 6

Lit_y == <<"y", " ", "=", " ">>
Lit_k == <<" ", "+", " ", "k", " ", "*", " ">>
Lit_x == <<"x", " ", "=", " ", "(">>
Lit_times_y == <<" ", "*", " ", "y", " ", "-", " ">>
Lit_over == <<")", " ", "/", " ">>

Failure(e) == [error |-> e, value |-> <<>>]

find_solution_equation(a_num, a_den, b_num, b_den) ==
    LET m == lcm(a_den, b_den)
        p_prime == (m * a_num) \div a_den
        r_prime == (m * b_num) \div b_den
        g == gcd(m, Abs(p_prime))
        delta_y == Abs(p_prime) \div g
        mod_inverse == modular_inverse(m, Abs(p_prime))
        y_initial == (mod_inverse.value * (r_prime % Abs(p_prime))) % Abs(p_prime)
        y_general == Lit_y \o Str(y_initial) \o Lit_k \o Str(delta_y)
        x_general == Lit_x \o Str(m) \o Lit_times_y \o Str(r_prime)
                     \o Lit_over \o Str(p_prime)
    IN  IF mod_inverse.error # "none" THEN Failure(mod_inverse.error)
        ELSE IF mod_inverse.value = -1 THEN Failure("ValueError")
        ELSE [error |-> "none", value |-> <<x_general, y_general>>]

RECURSIVE Samples_nonneg(_, _, _, _, _, _)
Samples_nonneg(c, y_initial, delta_y, m, r_prime, p_prime) ==
    IF c >= NumSamples THEN <<>>
    ELSE LET y == y_initial + c * delta_y
             x == FloorDiv(m * y - r_prime, p_prime)
             rest == Samples_nonneg(c + 1, y_initial, delta_y, m, r_prime, p_prime)
         IN  IF x >= 0 /\ y >= 0 THEN <<(<<x, y>>)>> \o rest ELSE rest

RECURSIVE Samples(_, _, _, _, _, _)
\* for c in range(c, 6): keep (x, y) when x > 0 and y > 0
Samples(c, y_initial, delta_y, m, r_prime, p_prime) ==
    IF c >= NumSamples THEN <<>>
    ELSE LET y == y_initial + c * delta_y
             x == FloorDiv(m * y - r_prime, p_prime)
             rest == Samples(c + 1, y_initial, delta_y, m, r_prime, p_prime)
         IN  IF x > 0 /\ y > 0 THEN <<(<<x, y>>)>> \o rest ELSE rest

find_integer_solutions(a_num, a_den, b_num, b_den) ==
    LET m == lcm(a_den, b_den)
        p_prime == (m * a_num) \div a_den
        r_prime == (m * b_num) \div b_den
        mod_inverse == modular_inverse(m, Abs(p_prime))
        y_initial == (mod_inverse.value * (r_prime % Abs(p_prime))) % Abs(p_prime)
        delta_y == Abs(p_prime) \div gcd(m, p_prime)
    IN  IF mod_inverse.error # "none" THEN Failure(mod_inverse.error)
        ELSE IF p_prime = 0 THEN Failure("ZeroDivisionError")
        ELSE [error |-> "none",
              value |-> Samples(0, y_initial, delta_y, m, r_prime, p_prime)]

Nums == (-MaxNum)..MaxNum
Dens == 1..MaxDen

\* the four integers of a call, a_den > 0 and b_den > 0 as the contract requires
SolveInit ==
    /\ sfn = "none"
    /\ args \in Nums \X Dens \X Nums \X Dens
    /\ outcome = Failure("none")

\* find_solution_equation(*args)
CallFindSolutionEquation ==
    /\ sfn = "none"
    /\ sfn' = "find_solution_equation"
    /\ outcome' = find_solution_equation(args[1], args[2], args[3], args[4])
    /\ UNCHANGED <<args, cvars, rvars, wvars>>

\* find_integer_solutions(*args)
CallFindIntegerSolutions ==
    /\ sfn = "none"
    /\ sfn' = "find_integer_solutions"
    /\ outcome' = find_integer_solutions(args[1], args[2], args[3], args[4])
    /\ UNCHANGED <<args, cvars, rvars, wvars>>

\* the caller has taken the result and is ready for the next call
SolveDone ==
    /\ sfn # "none"
    /\ sfn' = "none"
    /\ outcome' = Failure("none")
    /\ UNCHANGED <<args, cvars, rvars, wvars>>

-----------------------------------------------------------------------------
(* A caller comparing two restricted calls on the same starting integer *)

\* any call before the first observation
Warmup(x, r) ==
    /\ phase = "warmup"
    /\ DoCall(x, r)
    /\ UNCHANGED <<rvars, wvars, svars>>

\* collatz(x, cache, restrict_cache=True), result remembered
FirstRestricted(x) ==
    /\ phase = "warmup"
    /\ x >= 1
    /\ DoCall(x, TRUE)
    /\ phase' = "observed"
    /\ first' = [x |-> x, sequence |-> sequence', keys |-> DOMAIN cache]
    /\ UNCHANGED <<wvars, svars>>

\* collatz(s, cache, restrict_cache=False) with s greater than the observed start
LargerFull(s) ==
    /\ phase \in {"observed", "again"}
    /\ s > first.x
    /\ DoCall(s, FALSE)
    /\ phase' = "observed"
    /\ UNCHANGED <<first, wvars, svars>>

\* collatz(first.x, cache, restrict_cache=True) once more
SecondRestricted ==
    /\ phase = "observed"
    /\ DoCall(first.x, TRUE)
    /\ phase' = "again"
    /\ UNCHANGED <<first, wvars, svars>>

-----------------------------------------------------------------------------
(* Specifications *)

Init == CacheInit /\ ReproInit /\ WalkInit /\ sfn = "none" /\ args = <<1, 1, 0, 1>>
        /\ outcome = Failure("none")

\* any sequence of collatz calls on one cache
CacheNext ==
    \/ \E x \in Starts : CollatzFull(x)
    \/ \E x \in Starts : CollatzRestricted(x)

CacheSpec == Init /\ [][CacheNext]_vars

\* calls, a restricted call, larger unrestricted calls, the same restricted call
ReproNext ==
    \/ \E x \in Starts, r \in BOOLEAN : Warmup(x, r)
    \/ \E x \in Starts : FirstRestricted(x)
    \/ \E s \in Starts : LargerFull(s)
    \/ SecondRestricted

ReproSpec == Init /\ [][ReproNext]_vars

\* the two walkers, one loop iteration per step
WalkNext ==
    \/ \E s \in WalkStarts : CallFullBinarySequence(s)
    \/ FbsStep
    \/ FbsReturn
    \/ \E s \in WalkStarts : CallCollatzTransformation(s)
    \/ CtEven
    \/ CtOdd
    \/ CtReturn

WalkSpec == Init /\ [][WalkNext]_vars

\* solver calls on bounded inputs
SolveNext ==
    \/ CallFindSolutionEquation
    \/ CallFindIntegerSolutions
    \/ SolveDone

\* the solver's arguments are drawn at the start
SolveStart == CacheInit /\ ReproInit /\ WalkInit /\ SolveInit

SolveSpec == SolveStart /\ [][SolveNext]_vars

-----------------------------------------------------------------------------
(* Reference definitions used to state the properties *)

\* the Collatz step
Step(x) == IF x % 2 = 0 THEN x \div 2 ELSE 3 * x + 1

RECURSIVE TrajectoryFrom(_, _)
TrajectoryFrom(x, fuel) ==
    IF x = 1 \/ fuel = 0 THEN <<x>> ELSE <<x>> \o TrajectoryFrom(Step(x), fuel - 1)

\* x, Step(x), ..., 1
Trajectory(x) == TrajectoryFrom(x, MaxIter)

RECURSIVE ExpandTo(_, _, _)
\* seq with every C(v) replaced, recursively, by c[v]; 0 stands for a marker that
\* names no key or whose expansion does not end within depth levels
ExpandTo(seq, c, depth) ==
    IF seq = <<>> THEN <<>>
    ELSE LET h == Head(seq)
             front == IF h.isint THEN <<h.v>>
                      ELSE IF h.v \in DOMAIN c /\ depth > 0
                           THEN ExpandTo(c[h.v], c, depth - 1)
                           ELSE <<0>>
         IN  front \o ExpandTo(Tail(seq), c, depth)

Expand(seq, c) == ExpandTo(seq, c, MaxIter)

Markers(seq) == {i \in 1..Len(seq) : ~seq[i].isint}

RECURSIVE Pow(_, _)
Pow(b, e) == IF e = 0 THEN 1 ELSE b * Pow(b, e - 1)

\* number of odd / even values transformed on the way from x to 1
OddSteps(x) == LET t == Trajectory(x) IN Cardinality({i \in 1..(Len(t) - 1) : t[i] % 2 = 1})
EvenSteps(x) == LET t == Trajectory(x) IN Cardinality({i \in 1..(Len(t) - 1) : t[i] % 2 = 0})

\* the cleared-fraction form of the solver's arguments
ArgM == lcm(args[2], args[4])
ArgP == (ArgM * args[1]) \div args[2]
ArgR == (ArgM * args[3]) \div args[4]

-----------------------------------------------------------------------------
(* Properties *)

\* C1: the sequence returned by an unrestricted collatz call on x0 >= 1, after any
\* earlier calls on the same cache, names only cached keys in its markers and, with
\* each marker C(v) replaced recursively by cache[v], is the Collatz trajectory
\* x0, Step(x0), ..., 1.
C1_ExpansionIsTrajectory ==
    (x0 >= 1 /\ ~restrict_cache /\ error = "none") =>
        /\ \A i \in Markers(sequence) : sequence[i].v \in DOMAIN cache
        /\ Expand(sequence, cache) = Trajectory(x0)
        /\ Expand(sequence, cache)[Len(Expand(sequence, cache))] = 1

\* an unrestricted call returned a marker whose cache entry itself ends in a marker
C1_Witness ==
    /\ x0 >= 1 /\ ~restrict_cache /\ error = "none"
    /\ \E i \in Markers(sequence) :
          /\ sequence[i].v \in DOMAIN cache
          /\ Markers(cache[sequence[i].v]) # {}

\* C5: no collatz call removes a key from the cache, and after every call each entry
\* cache[v] is a non-empty sequence whose first element is the integer v.
C5_CacheMonotone ==
    [][/\ DOMAIN cache \subseteq DOMAIN cache'
       /\ \A v \in DOMAIN cache' : Len(cache'[v]) >= 1 /\ cache'[v][1] = Num(v)]_vars

\* a filled cache after a restricted call and after an invalid call
C5_Witness ==
    /\ Cardinality(DOMAIN cache) >= 8
    /\ (restrict_cache \/ error = "ValueError")

\* C6 as stated: every entry cache[v] is the plain integers v, Step(v), ..., 1.
C6_EntriesArePlainTrajectories ==
    \A v \in DOMAIN cache :
        cache[v] = [i \in 1..Len(Trajectory(v)) |-> Num(Trajectory(v)[i])]

\* C6 amended: every entry cache[v] is the plain integers v, Step(v), ... in step
\* order, closed either by the integer 1 or by one marker C(w) for the next value w,
\* w a key of the cache; with its marker expanded through the cache the entry is
\* v, Step(v), ..., 1.
C6_EntriesAreCompactTrajectories ==
    \A v \in DOMAIN cache :
        LET e == cache[v]
            n == Len(e)
        IN  /\ n >= 1
            /\ e[1] = Num(v)
            /\ \A i \in 1..(n - 1) : e[i].isint /\ e[i].v # 1 /\ e[i + 1].v = Step(e[i].v)
            /\ \/ e[n] = Num(1)
               \/ ~e[n].isint /\ e[n].v \in DOMAIN cache
            /\ Expand(e, cache) = Trajectory(v)

\* some entry of the cache ends in a marker
C6_Witness ==
    \E v \in DOMAIN cache : Len(cache[v]) >= 2 /\ Markers(cache[v]) # {}

\* C7 as stated: a restricted call on x0 returns the same sequence after any
\* unrestricted calls on starting integers greater than x0.
C7_RestrictedReproducible ==
    phase = "again" => sequence = first.sequence

LowKeys(keys, x) == {k \in keys : k < x}

\* C7 amended: a restricted call on x0 returns the same sequence after any
\* unrestricted calls on starting integers greater than x0, provided those calls
\* added no cache key smaller than x0.
C7_RestrictedReproducibleBelow ==
    (phase = "again" /\ LowKeys(DOMAIN cache, first.x) = LowKeys(first.keys, first.x))
        => sequence = first.sequence

\* the second restricted call came after larger calls that grew the cache, including
\* the key x0 itself, and none below x0; its result uses a marker
C7_Witness ==
    /\ phase = "again"
    /\ LowKeys(DOMAIN cache, first.x) = LowKeys(first.keys, first.x)
    /\ first.x \in DOMAIN cache \ first.keys
    /\ Markers(sequence) # {}

\* C8: a collatz call on x0 <= 0, in either mode, raises the invalid-input error,
\* returns no sequence and leaves the cache as it was.
C8_InvalidInputRejected ==
    [][x0' <= 0 => (error' = "ValueError" /\ sequence' = <<>> /\ cache' = cache)]_vars

\* an invalid call was made on a filled cache, in restricted mode
C8_Witness ==
    /\ x0 <= 0 /\ error = "ValueError"
    /\ restrict_cache
    /\ DOMAIN cache # {}

\* C9 as stated: full_binary_sequence(6) returns "010101000".
C9_ParityOfSix ==
    (wpc = "returned" /\ fn = "full_binary_sequence" /\ start = 6)
        => ret = <<"0", "1", "0", "1", "0", "1", "0", "0", "0">>

\* C9 amended: full_binary_sequence(6) returns "01010000", one character for each
\* of the 8 transitions of 6, 3, 10, 5, 16, 8, 4, 2, 1 (even = 0, odd = 1).
C9_ParityOfSixEightSteps ==
    (wpc = "returned" /\ fn = "full_binary_sequence" /\ start = 6)
        => ret = <<"0", "1", "0", "1", "0", "0", "0", "0">>

\* full_binary_sequence(6) has returned
C9_Witness ==
    wpc = "returned" /\ fn = "full_binary_sequence" /\ start = 6 /\ Len(ret) > 0

\* C4: the pair (a, b) returned by collatz_transformation(x0) satisfies
\* a * x0 + b = 1 exactly, with a = 3^(odd steps) / 2^(even steps).
C4_TransformationReachesOne ==
    (wpc = "returned" /\ fn = "collatz_transformation") =>
        LET a == ret[1]
            b == ret[2]
        IN  /\ a.num * start * b.den + b.num * a.den = a.den * b.den
            /\ a.num = Pow(3, OddSteps(start))
            /\ a.den = Pow(2, EvenSteps(start))

\* collatz_transformation returned for a start with several odd and even steps
C4_Witness ==
    /\ wpc = "returned" /\ fn = "collatz_transformation"
    /\ OddSteps(start) >= 2 /\ EvenSteps(start) >= 2
    /\ ret[2].num # 0

\* C2: every pair (x, y) returned by find_integer_solutions for a_num # 0 satisfies
\* (a_num/a_den) * x + (b_num/b_den) = y exactly, that is m*y = p*x + r.
C2_SolutionsSatisfyEquation ==
    (sfn = "find_integer_solutions" /\ args[1] # 0 /\ outcome.error = "none") =>
        \A i \in 1..Len(outcome.value) :
            LET x == outcome.value[i][1]
                y == outcome.value[i][2]
            IN  /\ args[1] * x * args[4] + args[3] * args[2] = y * args[2] * args[4]
                /\ ArgM * y = ArgP * x + ArgR

\* C3: when gcd(m, |p|) # 1 and p # 0, find_solution_equation and
\* find_integer_solutions both fail with the no-modular-inverse error.
C3_NoInverseRaises ==
    (sfn # "none" /\ ArgP # 0 /\ gcd(ArgM, Abs(ArgP)) # 1)
        => outcome.error = "ValueError"

\* the smallest y >= 0 for which (m*y - r) / p is an integer
SmallestY == CHOOSE y \in 0..(Abs(ArgP) - 1) :
                /\ (ArgM * y - ArgR) % Abs(ArgP) = 0
                /\ \A z \in 0..(y - 1) : (ArgM * z - ArgR) % Abs(ArgP) # 0

\* the inverse of m modulo |p|
InverseOfM == CHOOSE v \in 0..(Abs(ArgP) - 1) : (v * ArgM) % Abs(ArgP) = 1 % Abs(ArgP)

\* the pair for step k
PairAt(k) == LET y == SmallestY + k * Abs(ArgP)
             IN  <<FloorDiv(ArgM * y - ArgR, ArgP), y>>

RECURSIVE PositivePairs(_)
\* the pairs for steps k..5 with x > 0 and y > 0, in increasing k
PositivePairs(k) ==
    IF k > 5 THEN <<>>
    ELSE IF PairAt(k)[1] > 0 /\ PairAt(k)[2] > 0
         THEN <<PairAt(k)>> \o PositivePairs(k + 1)
         ELSE PositivePairs(k + 1)

====
